---- MODULE Spec2Model ----
(***************************************************************************)
(* productive-box-in-readme: one run of src/index.ts.                      *)
(*                                                                         *)
(* The run is an async function: identity lookup, contributed-repository   *)
(* lookup, one commit-history lookup per repository (Promise.all), a       *)
(* counting pass over the commit dates, rendering, getReadme and           *)
(* createOrUpdateFile.  Every action below is one continuation of that     *)
(* function: the code between two awaits.                                  *)
(*                                                                         *)
(* Optional values (undefined in the source) are sequences of length 0 or  *)
(* 1: None is undefined, Some(x) is the value x.                           *)
(***************************************************************************)
EXTENDS Integers, Sequences, FiniteSets, TLC

\* ------------------------------------------------------------------ bounds
\* Most entries of repositoriesContributedTo.nodes in one run.
MaxRepos == 2
\* Most commit edges returned by all history lookups of one run together.
MaxCommits == 2
\* Longest README (in tokens) drawn for the document updater.
MaxDocLen == 3
\* Most commits another party makes to the README between getReadme and
\* createOrUpdateFile.
MaxEdits == 1

\* ------------------------------------------------------- optional values
None == << >>
Some(x) == << x >>
IsSome(o) == Len(o) = 1
Get(o) == o[1]

RECURSIVE SumSeq(_)
SumSeq(s) == IF s = << >> THEN 0 ELSE Head(s) + SumSeq(Tail(s))

RECURSIVE Flatten(_)
Flatten(ss) == IF ss = << >> THEN << >> ELSE Head(ss) \o Flatten(Tail(ss))

SeqsUpTo(S, n) == UNION { [1..k -> S] : k \in 0..n }

Min(S) == CHOOSE x \in S : \A y \in S : x <= y

\* ----------------------------------------------------------- log messages
UnableUser == "Unable to get username and id"
UnableRepo == "Unable to get the contributed repo"
UnableCommit == "Unable to get the commit info"
UnableReadme == "Unable to get README"
UnableUpdate == "Unable to update README"

\* -------------------------------------------------- githubQuery outcomes
\* A githubQuery promise either rejects or resolves with a response; the
\* optional chain read from the response (data?.viewer, ...?.nodes,
\* ...?.history) yields a value or undefined.
Rejected == [state |-> "rejected", response |-> None]
Resolved(r) == [state |-> "fulfilled", response |-> Some(r)]
Pending == [state |-> "pending", response |-> None]

Viewer == [login |-> "login", id |-> "id"]
UserOutcomes == { Rejected, Resolved([viewer |-> None]), Resolved([viewer |-> Some(Viewer)]) }

Node(i, fork) == [name |-> i, isFork |-> fork, owner |-> "owner"]
NodeLists == { [i \in 1..Len(f) |-> Node(i, f[i])] : f \in SeqsUpTo(BOOLEAN, MaxRepos) }
RepoOutcomes == { Rejected, Resolved([nodes |-> None]) }
                    \cup { Resolved([nodes |-> Some(n)]) : n \in NodeLists }

\* A committedDate is the commit's hour of day in the configured time zone,
\* or undefined / unparsable (None).
AllDates == { Some(h) : h \in 0..23 } \cup { None }
\* The dates the history lookups of a full run return: one per bucket
\* (midnight for the night bucket) and the unparsable one.
SampleDates == { Some(0), Some(6), Some(11), Some(18), None }

HistoryResponse(edges) == [history |-> Some(edges)]
NoHistory == [history |-> None]
HistoryOutcomes(dates, n) ==
    { Rejected, Resolved(NoHistory) }
        \cup { Resolved(HistoryResponse(e)) : e \in SeqsUpTo(dates, n) }

\* ------------------------------------------------------------ time string
\* Date.prototype.toLocaleTimeString('en-US', {hour12: false, timeZone}):
\* "HH:MM:SS".  With hour12: false the hour cycle is the runtime's choice
\* between h23 (00..23) and h24 (01..24, midnight printed as 24); an Invalid
\* Date prints as "Invalid Date".
HourCycles == { "h23", "h24" }
Digits == << "0", "1", "2", "3", "4", "5", "6", "7", "8", "9" >>
TwoDigits(n) == << Digits[(n \div 10) + 1], Digits[(n % 10) + 1] >>
toLocaleTimeString(date, cycle) ==
    IF date = None THEN << "Invalid Date" >>
    ELSE LET h == IF cycle = "h24" /\ Get(date) = 0 THEN 24 ELSE Get(date)
         IN  TwoDigits(h) \o << ":", "0", "0", ":", "0", "0" >>

\* timeString.split(':')[0]
SplitFirst(s) ==
    LET colons == { i \in 1..Len(s) : s[i] = ":" }
    IN  IF colons = {} THEN s ELSE SubSeq(s, 1, Min(colons) - 1)

\* Unary plus on a string: the decimal number, or NaN (None).
DigitValue(c) == CHOOSE d \in 0..9 : Digits[d + 1] = c
RECURSIVE Decimal(_)
Decimal(s) == IF s = << >> THEN 0
              ELSE 10 * Decimal(SubSeq(s, 1, Len(s) - 1)) + DigitValue(s[Len(s)])
ToNumber(s) ==
    IF \A i \in 1..Len(s) : \E d \in 1..10 : Digits[d] = s[i]
    THEN Some(Decimal(s)) ELSE None

Hour(date, cycle) == ToNumber(SplitFirst(toLocaleTimeString(date, cycle)))

\* Comparisons with NaN are false.
Ge(hour, n) == IsSome(hour) /\ Get(hour) >= n
Lt(hour, n) == IsSome(hour) /\ Get(hour) < n

\* ------------------------------------------------------------ aggregation
Buckets == { "morning", "daytime", "evening", "night" }
Zero == [b \in Buckets |-> 0]

VoteOffByOne(hour) ==
    { b \in Buckets :
        \/ b = "morning" /\ Ge(hour, 6) /\ Lt(hour, 11)
        \/ b = "daytime" /\ Ge(hour, 11) /\ Lt(hour, 18)
        \/ b = "evening" /\ Ge(hour, 18) /\ Lt(hour, 23)
        \/ b = "night" /\ ((Ge(hour, 23) /\ Lt(hour, 24)) \/ (Ge(hour, 1) /\ Lt(hour, 6))) }

\* The buckets one commit's hour increments: four independent ifs.
Vote(hour) ==
    { b \in Buckets :
        \/ b = "morning" /\ Ge(hour, 6) /\ Lt(hour, 11)
        \/ b = "daytime" /\ Ge(hour, 11) /\ Lt(hour, 18)
        \/ b = "evening" /\ Ge(hour, 18) /\ Lt(hour, 23)
        \/ b = "night" /\ ((Ge(hour, 23) /\ Lt(hour, 24)) \/ (Ge(hour, 0) /\ Lt(hour, 6))) }

Count(counters, hour) ==
    LET voted == Vote(hour)
    IN  [b \in Buckets |-> counters[b] + IF b \in voted THEN 1 ELSE 0]

\* The inner forEach over one response's edges; an absent history path is
\* skipped by the optional chain.
RECURSIVE CountEdges(_, _, _)
CountEdges(counters, edges, cycle) ==
    IF edges = << >> THEN counters
    ELSE CountEdges(Count(counters, Hour(Head(edges), cycle)), Tail(edges), cycle)

CountResponse(counters, response, cycle) ==
    IF response.history = None THEN counters
    ELSE CountEdges(counters, Get(response.history), cycle)

RECURSIVE AggregateFrom(_, _, _)
AggregateFrom(counters, responses, cycle) ==
    IF responses = << >> THEN counters
    ELSE AggregateFrom(CountResponse(counters, Head(responses), cycle), Tail(responses), cycle)

AggregateLastOnly(responses, cycle) ==
    IF responses = << >> THEN Zero
    ELSE CountResponse(Zero, responses[Len(responses)], cycle)

\* The outer forEach, from the four counters at zero.
Aggregate(responses, cycle) == AggregateFrom(Zero, responses, cycle)

\* Promise.all over the lookups: undefined (after the catch) as soon as one
\* rejected, else the responses in the order of repos.
PromiseAllSettled(lookups) ==
    Some([i \in 1..Len(lookups) |->
            IF lookups[i].state = "fulfilled" THEN Get(lookups[i].response) ELSE NoHistory])

PromiseAll(lookups) ==
    IF \E i \in 1..Len(lookups) : lookups[i].state = "rejected" THEN None
    ELSE Some([i \in 1..Len(lookups) |-> Get(lookups[i].response)])

NeverZero(sum) == FALSE

\* if (!sum) return
ZeroActivity(sum) == sum = 0

\* -------------------------------------------------------------- rendering
\* 'Я активнее днём' and 'Я активнее ночью', transliterated.
TitleDay == "Ya aktivnee dnyom"
TitleNight == "Ya aktivnee nochyu"

TitleNonStrict(counters) ==
    IF (counters["morning"] + counters["daytime"]) >= (counters["evening"] + counters["night"])
    THEN TitleDay ELSE TitleNight

Title(counters) ==
    IF (counters["morning"] + counters["daytime"]) > (counters["evening"] + counters["night"])
    THEN TitleDay ELSE TitleNight

Total(counters) ==
    counters["morning"] + counters["daytime"] + counters["evening"] + counters["night"]

\* The labels '🌞 Утро', '🌆 День', '🌃 Вечер', '🌙 Ночь', transliterated.
oneDay(counters) ==
    << [label |-> "Utro", commits |-> counters["morning"]],
       [label |-> "Den", commits |-> counters["daytime"]],
       [label |-> "Vecher", commits |-> counters["evening"]],
       [label |-> "Noch", commits |-> counters["night"]] >>

\* Width of the bar handed to generateBarChart.
BarWidth == 21

\* percent = commits / sum * 100 is kept as the fraction it is; x / 0 is NaN.
\* Math.round(percent / 100 * size) filled cells, the rest empty.
generateBarChart(commits, sum, size) ==
    IF sum = 0 THEN None
    ELSE LET filled == (2 * commits * size + sum) \div (2 * sum)
         IN  Some([filled |-> filled, empty |-> size - filled])

\* percent.toFixed(1), in tenths of a percent.
toFixed1(commits, sum) ==
    IF sum = 0 THEN None ELSE Some((2 * commits * 1000 + sum) \div (2 * sum))

Line(cur, sum) ==
    [label |-> cur.label, commits |-> cur.commits,
     bar |-> generateBarChart(cur.commits, sum, BarWidth),
     percent |-> toFixed1(cur.commits, sum)]

Lines(counters) ==
    [i \in 1..4 |-> Line(oneDay(counters)[i], Total(counters))]

\* --------------------------------------------------------------- document
\* A document is a sequence of tokens: the two marker comments, a newline,
\* any other character, a byte sequence that is not valid UTF-8 (in the
\* stored bytes), U+FFFD (in decoded text) and a rendered chart.
Tok(t) == [t |-> t]
startComment == Tok("<!--START_SECTION:productive-box-in-readme-->")
endComment == Tok("<!--END_SECTION:productive-box-in-readme-->")
Newline == Tok("\n")
OtherChar == Tok("x")
InvalidBytes == Tok("invalid UTF-8")
ReplacementChar == Tok("U+FFFD")

\* The fenced text block: the title, an empty line and the four lines.
productiveBoxContent(title, lines) == [t |-> "text block", title |-> title, lines |-> lines]

sectionContent(title, lines) ==
    << startComment, Newline, productiveBoxContent(title, lines), Newline, endComment >>

DocTokens == { startComment, endComment, Newline, OtherChar, InvalidBytes }
Docs == SeqsUpTo(DocTokens, MaxDocLen)
\* The READMEs a full run starts from: one with a section, one without.
SampleDocs == { << OtherChar, startComment, OtherChar, Newline, endComment, OtherChar >>,
                << OtherChar, Newline >> }

\* Buffer.from(content, 'base64') and .toString('base64').
ToBase64(bytes) == [base64 |-> bytes]
FromBase64(b) == b.base64

\* .toString('utf8'): an invalid byte sequence decodes to U+FFFD.
Utf8Decode(bytes) ==
    [i \in 1..Len(bytes) |-> IF bytes[i] = InvalidBytes THEN ReplacementChar ELSE bytes[i]]
\* Buffer.from(text, 'utf8'): every character of decoded text has an encoding.
Utf8Encode(text) == [i \in 1..Len(text) |-> text[i]]

\* The positions of the end markers after position i.
EndsAfter(text, i) == { j \in (i + 1)..Len(text) : text[j] = endComment }
\* The positions where the regex matches: a start marker with an end marker
\* somewhere after it ([\d\D] matches every character, newlines included).
MatchStarts(text) ==
    { i \in 1..Len(text) : text[i] = startComment /\ EndsAfter(text, i) # {} }

Max(S) == CHOOSE x \in S : \A y \in S : x >= y

ReplaceGreedy(text, section) ==
    IF MatchStarts(text) = {} THEN text
    ELSE LET i == Min(MatchStarts(text))
             j == Max(EndsAfter(text, i))
         IN  SubSeq(text, 1, i - 1) \o section \o SubSeq(text, j + 1, Len(text))

ReplaceOrAppend(text, section) ==
    IF MatchStarts(text) = {} THEN text \o section
    ELSE LET i == Min(MatchStarts(text))
             j == Min(EndsAfter(text, i))
         IN  SubSeq(text, 1, i - 1) \o section \o SubSeq(text, j + 1, Len(text))

\* readmeContent.replace(regex, sectionContent) with the non-global regex
\* startComment[\d\D]*?endComment: the leftmost match, lazily extended.
Replace(text, section) ==
    IF MatchStarts(text) = {} THEN text
    ELSE LET i == Min(MatchStarts(text))
             j == Min(EndsAfter(text, i))
         IN  SubSeq(text, 1, i - 1) \o section \o SubSeq(text, j + 1, Len(text))

\* The hosting platform's side of the read/write protocol: the revision
\* token of a file names its content, and a write is accepted only with the
\* token of the content it replaces.
Sha(content) == [sha |-> content]
Stale(sha, stored) == sha # Sha(stored.content)
BotAuthor == "productive-box"
OtherAuthor == "other party"

\* ------------------------------------------------------------------ state
VARIABLES
    pc,                        \* where the async function stands
    log,                       \* console.error messages, in order
    calls,                     \* requests issued, in order
    userResponse,              \* line 26
    repoResponse,              \* line 34
    repos,                     \* line 36
    lookups,                   \* the promises handed to Promise.all, line 47
    committedTimeResponseMap,  \* line 46
    hours,                     \* the hour of every processed edge, line 61
    counters,                  \* morning, daytime, evening, night, lines 52-55
    readme,                    \* line 102
    title,                     \* line 113
    request,                   \* the createOrUpdateFile request, lines 120-127
    remote                     \* the README as stored by the hosting platform

vars == << pc, log, calls, userResponse, repoResponse, repos, lookups,
           committedTimeResponseMap, hours, counters, readme, title, request, remote >>

Init ==
    /\ pc = "userInfo"
    /\ log = << >>
    /\ calls = << "userInfo" >>
    /\ userResponse = None
    /\ repoResponse = None
    /\ repos = None
    /\ lookups = << >>
    /\ committedTimeResponseMap = None
    /\ hours = << >>
    /\ counters = Zero
    /\ readme = None
    /\ title = None
    /\ request = None
    /\ remote \in { [content |-> d, commits |-> << >>] : d \in SampleDocs }

\* ---------------------------------------------------------------- actions
\* Lines 26-34.  The catch logs and yields undefined; destructuring
\* undefined throws a TypeError nothing catches, so the async function's
\* promise rejects.  Otherwise the repository query is issued.
GetUserInfo ==
    /\ pc = "userInfo"
    /\ \E o \in UserOutcomes :
        LET viewer == IF o.response = None THEN None ELSE Get(o.response).viewer
        IN  /\ userResponse' = o.response
            /\ log' = IF o.state = "rejected" THEN Append(log, UnableUser) ELSE log
            /\ IF viewer = None
               THEN pc' = "rejected" /\ calls' = calls
               ELSE pc' = "contributedRepo" /\ calls' = Append(calls, "contributedRepo")
    /\ UNCHANGED << repoResponse, repos, lookups, committedTimeResponseMap, hours,
                    counters, readme, title, request, remote >>

\* .filter(repoInfo => !repoInfo?.isFork).map(...)
RECURSIVE NonForks(_)
NonForks(nodes) ==
    IF nodes = << >> THEN << >>
    ELSE (IF Head(nodes).isFork THEN << >>
          ELSE << [name |-> Head(nodes).name, owner |-> Head(nodes).owner] >>)
         \o NonForks(Tail(nodes))

\* Lines 34-47.  With no nodes the optional chain leaves repos undefined and
\* repos.map throws outside the promise chain of Promise.all; otherwise one
\* history query per repository is issued.
GetContributedRepos ==
    /\ pc = "contributedRepo"
    /\ \E o \in RepoOutcomes :
        LET nodes == IF o.response = None THEN None ELSE Get(o.response).nodes
            rs == IF nodes = None THEN None ELSE Some(NonForks(Get(nodes)))
        IN  /\ repoResponse' = o.response
            /\ log' = IF o.state = "rejected" THEN Append(log, UnableRepo) ELSE log
            /\ repos' = rs
            /\ IF rs = None
               THEN pc' = "rejected" /\ calls' = calls /\ lookups' = lookups
               ELSE /\ pc' = "committedDate"
                    /\ calls' = calls \o [i \in 1..Len(Get(rs)) |-> "committedDate"]
                    /\ lookups' = [i \in 1..Len(Get(rs)) |-> Pending]
    /\ UNCHANGED << userResponse, committedTimeResponseMap, hours, counters, readme,
                    title, request, remote >>

EdgesOf(lookup) ==
    IF lookup.response = None \/ Get(lookup.response).history = None THEN 0
    ELSE Len(Get(Get(lookup.response).history))
EdgesSoFar == SumSeq([i \in 1..Len(lookups) |-> EdgesOf(lookups[i])])

\* One githubQuery(createCommittedDateQuery(...)) promise settles, in any
\* order, while the function awaits Promise.all.
HistorySettles ==
    /\ pc = "committedDate"
    /\ \E i \in 1..Len(lookups) :
        /\ lookups[i].state = "pending"
        /\ \E o \in HistoryOutcomes(SampleDates, MaxCommits - EdgesSoFar) :
            lookups' = [lookups EXCEPT ![i] = o]
    /\ UNCHANGED << pc, log, calls, userResponse, repoResponse, repos,
                    committedTimeResponseMap, hours, counters, readme, title, request,
                    remote >>

HoursOf(responses, cycle) ==
    [i \in 1..Len(responses) |->
        IF responses[i].history = None THEN << >>
        ELSE [k \in 1..Len(Get(responses[i].history)) |->
                Hour(Get(responses[i].history)[k], cycle)]]

\* Lines 46-102.  Promise.all settles: rejected as soon as one lookup
\* rejected (logged, return), else fulfilled when all are.  The counting
\* pass, the sum guard and the getReadme call follow without suspension.
AwaitAll ==
    /\ pc = "committedDate"
    /\ \/ \E i \in 1..Len(lookups) : lookups[i].state = "rejected"
       \/ \A i \in 1..Len(lookups) : lookups[i].state = "fulfilled"
    /\ committedTimeResponseMap' = PromiseAll(lookups)
    /\ IF committedTimeResponseMap' = None
       THEN /\ log' = Append(log, UnableCommit)
            /\ pc' = "returned"
            /\ UNCHANGED << calls, hours, counters >>
       ELSE /\ log' = log
            /\ \E cycle \in HourCycles :
                /\ hours' = HoursOf(Get(committedTimeResponseMap'), cycle)
                /\ counters' = Aggregate(Get(committedTimeResponseMap'), cycle)
            /\ IF ZeroActivity(Total(counters'))
               THEN pc' = "returned" /\ calls' = calls
               ELSE pc' = "getReadme" /\ calls' = Append(calls, "getReadme")
    /\ UNCHANGED << userResponse, repoResponse, repos, lookups, readme, title, request,
                    remote >>

FileRequestShaOfNew(newContent, sha) ==
    [content |-> newContent, sha |-> Sha(FromBase64(newContent))]

\* The createOrUpdateFile parameters: the new content and the sha read.
FileRequest(newContent, sha) == [content |-> newContent, sha |-> sha]

\* Lines 102-120.  getReadme rejects (logged, return), or resolves with the
\* stored content and its sha; the section is replaced in the decoded text
\* and createOrUpdateFile is called with the result and that sha.
GetReadme ==
    /\ pc = "getReadme"
    /\ \/ /\ readme' = None
          /\ log' = Append(log, UnableReadme)
          /\ pc' = "returned"
          /\ UNCHANGED << calls, title, request >>
       \/ LET data == [content |-> ToBase64(remote.content), sha |-> Sha(remote.content)]
              readmeContent == Utf8Decode(FromBase64(data.content))
              section == sectionContent(Title(counters), Lines(counters))
              newContent == ToBase64(Utf8Encode(Replace(readmeContent, section)))
          IN  /\ readme' = Some(data)
              /\ title' = Some(Title(counters))
              /\ request' = Some(FileRequest(newContent, data.sha))
              /\ calls' = Append(calls, "createOrUpdateFile")
              /\ log' = log
              /\ pc' = "createOrUpdateFile"
    /\ UNCHANGED << userResponse, repoResponse, repos, lookups, committedTimeResponseMap,
                    hours, counters, remote >>

AuthoredBy(who) == Len(SelectSeq(remote.commits, LAMBDA a : a = who))

\* Another party commits a change to the README.  The run observes the
\* stored README at getReadme and at createOrUpdateFile only, so the
\* changes before getReadme are those of the initial content.
OtherPartyEdit ==
    /\ pc = "createOrUpdateFile"
    /\ AuthoredBy(OtherAuthor) < MaxEdits
    /\ remote' = [content |-> Append(remote.content, OtherChar),
                  commits |-> Append(remote.commits, OtherAuthor)]
    /\ UNCHANGED << pc, log, calls, userResponse, repoResponse, repos, lookups,
                    committedTimeResponseMap, hours, counters, readme, title, request >>

\* Lines 120-127.  The request is accepted, and the content stored, only if
\* its sha is that of the stored content; a rejection for a stale sha or for
\* any other reason is logged.  The function returns either way.
CreateOrUpdateFile ==
    /\ pc = "createOrUpdateFile"
    /\ \/ /\ ~Stale(Get(request).sha, remote)
          /\ remote' = [content |-> FromBase64(Get(request).content),
                        commits |-> Append(remote.commits, BotAuthor)]
          /\ log' = log
       \/ /\ remote' = remote
          /\ log' = Append(log, UnableUpdate)
    /\ pc' = "returned"
    /\ UNCHANGED << calls, userResponse, repoResponse, repos, lookups,
                    committedTimeResponseMap, hours, counters, readme, title, request >>

Next ==
    \/ GetUserInfo
    \/ GetContributedRepos
    \/ HistorySettles
    \/ AwaitAll
    \/ GetReadme
    \/ OtherPartyEdit
    \/ CreateOrUpdateFile

Spec == Init /\ [][Next]_vars

\* ------------------------------------------------ the aggregator on its own
\* The run at the await of Promise.all over one repository, the lookup
\* settled with any history of commits at any hour of the day.
InitAggregate ==
    /\ pc = "committedDate"
    /\ log = << >>
    /\ calls = << "userInfo", "contributedRepo", "committedDate" >>
    /\ userResponse = Some([viewer |-> Some(Viewer)])
    /\ repoResponse = Some([nodes |-> Some(<< Node(1, FALSE) >>)])
    /\ repos = Some(NonForks(<< Node(1, FALSE) >>))
    /\ lookups \in { << o >> : o \in HistoryOutcomes(AllDates, MaxCommits) }
    /\ committedTimeResponseMap = None
    /\ hours = << >>
    /\ counters = Zero
    /\ readme = None
    /\ title = None
    /\ request = None
    /\ remote \in { [content |-> d, commits |-> << >>] : d \in SampleDocs }

NextAggregate == AwaitAll

SpecAggregate == InitAggregate /\ [][NextAggregate]_vars

\* ------------------------------------------ the document updater on its own
\* The counters a run can reach the document update with.
ActiveCounters == { c \in [Buckets -> 0..MaxCommits] : Total(c) \in 1..MaxCommits }

Repeat(x, n) == [i \in 1..n |-> x]
\* A history whose commits count to c under either hour cycle.
EdgesFor(c) ==
    Repeat(Some(6), c["morning"]) \o Repeat(Some(11), c["daytime"])
        \o Repeat(Some(18), c["evening"]) \o Repeat(Some(23), c["night"])

\* The run at the await of getReadme, after one repository's history was
\* counted, with any README of at most MaxDocLen tokens stored.
InitUpdate ==
    /\ pc = "getReadme"
    /\ log = << >>
    /\ calls = << "userInfo", "contributedRepo", "committedDate", "getReadme" >>
    /\ userResponse = Some([viewer |-> Some(Viewer)])
    /\ repoResponse = Some([nodes |-> Some(<< Node(1, FALSE) >>)])
    /\ repos = Some(NonForks(<< Node(1, FALSE) >>))
    /\ counters \in ActiveCounters
    /\ lookups = << Resolved(HistoryResponse(EdgesFor(counters))) >>
    /\ committedTimeResponseMap = PromiseAll(lookups)
    /\ hours = HoursOf(Get(committedTimeResponseMap), "h23")
    /\ readme = None
    /\ title = None
    /\ request = None
    /\ remote \in { [content |-> d, commits |-> << >>] : d \in Docs }

NextUpdate ==
    \/ GetReadme
    \/ OtherPartyEdit
    \/ CreateOrUpdateFile

SpecUpdate == InitUpdate /\ [][NextUpdate]_vars

\* ----------------------------------------------------------------- claims
Logged(m) == \E i \in 1..Len(log) : log[i] = m
Issued(api) == Len(SelectSeq(calls, LAMBDA c : c = api))
Aggregated == committedTimeResponseMap # None
StageFailed ==
    \/ Logged(UnableUser) \/ Logged(UnableRepo) \/ Logged(UnableCommit) \/ Logged(UnableReadme)
    \/ \E i \in 1..Len(lookups) : lookups[i].state = "rejected"
AllStagesSucceeded ==
    /\ userResponse # None /\ Get(userResponse).viewer # None /\ ~Logged(UnableUser)
    /\ repoResponse # None /\ Get(repoResponse).nodes # None /\ ~Logged(UnableRepo)
    /\ \A i \in 1..Len(lookups) : lookups[i].state = "fulfilled"
    /\ Aggregated /\ ~Logged(UnableCommit)
    /\ readme # None /\ ~Logged(UnableReadme)

\* C1: when the identity lookup or the repository-list lookup fails, the
\* failure is logged, the run ends by returning (no exception escapes the
\* async function) and no later stage is started.
C1_LookupFailureReturns ==
    /\ Logged(UnableUser) => (pc = "returned" /\ calls = << "userInfo" >>)
    /\ Logged(UnableRepo) => (pc = "returned" /\ calls = << "userInfo", "contributedRepo" >>)

\* C2: createOrUpdateFile is called at most once, and only after the
\* identity lookup, the repository lookup, every history lookup and
\* getReadme succeeded; when one of them failed it is never called and the
\* stored README carries no commit of this program.
C2_WriteOnlyAfterAllStages ==
    /\ Issued("createOrUpdateFile") <= 1
    /\ AuthoredBy(BotAuthor) <= Issued("createOrUpdateFile")
    /\ Issued("createOrUpdateFile") = 1 => AllStagesSucceeded
    /\ StageFailed => (Issued("createOrUpdateFile") = 0 /\ request = None
                       /\ AuthoredBy(BotAuthor) = 0 /\ remote.commits = << >>)

C2_Witness ==
    /\ pc = "returned"
    /\ Len(lookups) = MaxRepos
    /\ Issued("createOrUpdateFile") = 1
    /\ AuthoredBy(BotAuthor) = 1

\* C3: when all four counters are zero after the counting pass (no
\* repository, absent results, or no counted commit), the run returns
\* without rendering, and neither getReadme nor createOrUpdateFile is called.
C3_ZeroActivityReturns ==
    (Aggregated /\ Total(counters) = 0) =>
        /\ pc = "returned"
        /\ Issued("getReadme") = 0 /\ Issued("createOrUpdateFile") = 0
        /\ readme = None /\ title = None /\ request = None
        /\ remote.commits = << >>

C3_Witness ==
    /\ Aggregated /\ Total(counters) = 0 /\ pc = "returned"
    /\ Len(Get(committedTimeResponseMap)) = MaxRepos
    /\ \A i \in 1..MaxRepos : Get(committedTimeResponseMap)[i].history = None

DaySum == counters["morning"] + counters["daytime"]
NightSum == counters["evening"] + counters["night"]

\* C4 (as claimed): the title is the day title whenever morning + daytime
\* >= evening + night, a tie included, and the night title only when evening
\* + night is strictly greater.
C4_TieSelectsDay ==
    title # None =>
        /\ DaySum >= NightSum => Get(title) = TitleDay
        /\ Get(title) = TitleNight => NightSum > DaySum

\* C4 (amended): the title is the day title only when morning + daytime is
\* strictly greater than evening + night; a tie selects the night title.
C4_TieSelectsNight ==
    title # None =>
        /\ Total(counters) > 0
        /\ DaySum > NightSum => Get(title) = TitleDay
        /\ DaySum <= NightSum => Get(title) = TitleNight

C4_Witness ==
    /\ title = Some(TitleNight)
    /\ DaySum = NightSum
    /\ Total(counters) > 0

ProcessedEdges ==
    IF Aggregated
    THEN SumSeq([i \in 1..Len(Get(committedTimeResponseMap)) |->
                    IF Get(committedTimeResponseMap)[i].history = None THEN 0
                    ELSE Len(Get(Get(committedTimeResponseMap)[i].history))])
    ELSE 0

\* C5: after the counting pass, morning + daytime + evening + night equals
\* the number of commit edges in the results whose history is present,
\* whatever hour the time conversion yields for an edge.
C5_SumEqualsEdges ==
    Aggregated => Total(counters) = ProcessedEdges

ClaimedBucket(h) ==
    IF h >= 6 /\ h < 11 THEN "morning"
    ELSE IF h >= 11 /\ h < 18 THEN "daytime"
    ELSE IF h >= 18 /\ h < 23 THEN "evening"
    ELSE "night"

AllHours == Flatten(hours)
InDay(hour) == IsSome(hour) /\ Get(hour) \in 0..23

\* C6: every integer hour 0..23 increments exactly one counter: Morning
\* [6,11), Daytime [11,18), Evening [18,23), Night [23,24) and [0,6).  So
\* after counting edges whose hours all lie in 0..23, each counter is the
\* number of edges whose hour lies in its interval.
C6_HourPartition ==
    (Aggregated /\ \A k \in 1..Len(AllHours) : InDay(AllHours[k])) =>
        \A b \in Buckets :
            counters[b] =
                Cardinality({ k \in 1..Len(AllHours) : ClaimedBucket(Get(AllHours[k])) = b })

C6_Witness ==
    /\ Aggregated
    /\ AllHours = << Some(0), Some(23) >>
    /\ counters["night"] = 2

\* The decoded text getReadme returned, and the decoded text of the request.
ReadBody == Utf8Decode(FromBase64(Get(readme).content))
WrittenBody == Utf8Decode(FromBase64(Get(request).content))
HasPair(text) ==
    \E i \in 1..Len(text) : \E j \in (i + 1)..Len(text) :
        text[i] = startComment /\ text[j] = endComment
RenderedSection ==
    << startComment, Newline,
       [t |-> "text block", title |-> Get(title), lines |-> Lines(counters)],
       Newline, endComment >>

C8_StaleWriteFails ==
    /\ request # None => (readme # None /\ Get(request).sha = Get(readme).sha)
    /\ (pc = "returned" /\ AuthoredBy(OtherAuthor) > 0) =>
          /\ Logged(UnableUpdate)
          /\ Issued("createOrUpdateFile") = 1
          /\ AuthoredBy(BotAuthor) = 0
          /\ remote.content = FromBase64(Get(readme).content)
                                \o Repeat(OtherChar, AuthoredBy(OtherAuthor))

C8_Witness ==
    /\ pc = "returned"
    /\ AuthoredBy(OtherAuthor) = 1
    /\ Logged(UnableUpdate)
    /\ WrittenBody # ReadBody

Permuted(responses, p) == [i \in 1..Len(responses) |-> responses[p[i]]]

\* C9: the history lookups are issued only after the identity and the
\* repository lookups succeeded; the counting pass runs only when every
\* lookup is fulfilled; the counters are the same for every order of the
\* repository results; and when one lookup fails nothing is counted and the
\* run returns.
C9_AllOrNothingAnyOrder ==
    /\ Issued("committedDate") > 0 =>
          /\ userResponse # None /\ repoResponse # None /\ repos # None
          /\ Issued("committedDate") = Len(Get(repos))
          /\ SubSeq(calls, 1, 2) = << "userInfo", "contributedRepo" >>
    /\ Aggregated =>
          /\ \A i \in 1..Len(lookups) : lookups[i].state = "fulfilled"
          /\ Len(Get(committedTimeResponseMap)) = Len(lookups)
          /\ \E cycle \in HourCycles :
                /\ hours = HoursOf(Get(committedTimeResponseMap), cycle)
                /\ \A p \in Permutations(1..Len(lookups)) :
                      counters = Aggregate(Permuted(Get(committedTimeResponseMap), p), cycle)
    /\ ((\E i \in 1..Len(lookups) : lookups[i].state = "rejected") /\ pc # "committedDate") =>
          /\ pc = "returned" /\ Logged(UnableCommit)
          /\ ~Aggregated /\ counters = Zero /\ hours = << >>
          /\ Issued("getReadme") = 0

C9_Witness ==
    /\ Aggregated
    /\ Len(lookups) = MaxRepos
    /\ Get(committedTimeResponseMap)[1] # Get(committedTimeResponseMap)[MaxRepos]
    /\ Total(counters) = MaxCommits

====
